---- MODULE Spec2Model ----
(***************************************************************************)
(* Model of www/android_iab.js: the InAppBilling facade over cordova.exec. *)
(* One instance (module.exports = new InAppBilling()), its options and its *)
(* log method, the seven operations, and the native layer completing the   *)
(* bridge calls.                                                           *)
(***************************************************************************)
EXTENDS Integers, Sequences, FiniteSets, TLC

\* ---------------------------------------------------------------- bounds
MaxCalls == 2      \* operation calls made on the instance in one behaviour
MaxLen == 2        \* longest productIds array passed by a caller

\* ------------------------------------------------------------ JS values
\* A JavaScript value: t is its kind (typeof, with arrays and null told
\* apart), s the text of a string, n the value of a number, a the elements
\* of an array.
Undefined == [t |-> "undefined", s |-> "", n |-> 0, a |-> <<>>]
Null == [t |-> "null", s |-> "", n |-> 0, a |-> <<>>]
Str(x) == [t |-> "string", s |-> x, n |-> 0, a |-> <<>>]
Num(x) == [t |-> "number", s |-> "", n |-> x, a |-> <<>>]
Arr(q) == [t |-> "array", s |-> "", n |-> 0, a |-> q]

\* typeof v
TypeOf(v) == IF v.t \in {"array", "null"} THEN "object" ELSE v.t

\* Sequences over S of length 0..n
RECURSIVE SeqsUpTo(_, _)
SeqsUpTo(S, n) ==
    IF n = 0 THEN {<<>>}
    ELSE LET shorter == SeqsUpTo(S, n - 1)
         IN shorter \cup {Append(q, e) : q \in {p \in shorter : Len(p) = n - 1}, e \in S}

\* What a caller can put in an array of product ids
Elements == {Str("sku1"), Str(""), Num(42)}
\* What a caller can pass as productIds (absent is Undefined)
ProductIdsInputs ==
    {Undefined, Null, Str(""), Str("sku1"), Num(42)} \cup {Arr(q) : q \in SeqsUpTo(Elements, MaxLen)}
\* What a caller can pass as productId to buy, subscribe, consumePurchase
ProductIdInputs == {Str("sku1"), Num(42), Undefined}
\* What a caller can pass as options: nothing, {}, {showLog: true}, {showLog: false}
OptionsInputs ==
    {[t |-> "undefined", showLog |-> "undefined"],
     [t |-> "object", showLog |-> "undefined"],
     [t |-> "object", showLog |-> "true"],
     [t |-> "object", showLog |-> "false"]}

\* Truthiness of the values showLog takes
Truthy(b) == b = "true"
\* a || b
JsOr(a, b) == IF Truthy(a) THEN a ELSE b

\* JSON.stringify(v) as the sequence of the pieces of its text
RECURSIVE JSONjoin(_)
JSONatom(v) ==
    CASE v.t = "string" -> <<"\"", v.s, "\"">>
      [] v.t = "number" -> <<ToString(v.n)>>
      [] OTHER -> <<"null">>
JSONjoin(q) ==
    IF Len(q) = 0 THEN <<>>
    ELSE IF Len(q) = 1 THEN JSONatom(q[1])
    ELSE JSONatom(q[1]) \o <<",">> \o JSONjoin(Tail(q))
JSONstringify(v) ==
    IF v.t = "array" THEN <<"[">> \o JSONjoin(v.a) \o <<"]">> ELSE JSONatom(v)

\* ------------------------------------------------------ error code table
ERROR_CODES_BASE == 4983497
ERR_SETUP == ERROR_CODES_BASE + 1
ERR_LOAD == ERROR_CODES_BASE + 2
ERR_PURCHASE == ERROR_CODES_BASE + 3
ERR_LOAD_RECEIPTS == ERROR_CODES_BASE + 4
ERR_CLIENT_INVALID == ERROR_CODES_BASE + 5
ERR_PAYMENT_CANCELLED == ERROR_CODES_BASE + 6
ERR_PAYMENT_INVALID == ERROR_CODES_BASE + 7
ERR_PAYMENT_NOT_ALLOWED == ERROR_CODES_BASE + 8
ERR_UNKNOWN_renumbered == ERROR_CODES_BASE + 9
ERR_UNKNOWN == ERROR_CODES_BASE + 10
ERR_LOAD_INVENTORY == ERROR_CODES_BASE + 11
ERR_HELPER_DISPOSED == ERROR_CODES_BASE + 12
ERR_NOT_INITIALIZED == ERROR_CODES_BASE + 13
ERR_INVENTORY_NOT_LOADED == ERROR_CODES_BASE + 14
ERR_PURCHASE_FAILED == ERROR_CODES_BASE + 15
ERR_JSON_CONVERSION_FAILED == ERROR_CODES_BASE + 16
ERR_INVALID_PURCHASE_PAYLOAD == ERROR_CODES_BASE + 17
ERR_SUBSCRIPTION_NOT_SUPPORTED == ERROR_CODES_BASE + 18
ERR_CONSUME_NOT_OWNED_ITEM == ERROR_CODES_BASE + 19
ERR_CONSUMPTION_FAILED == ERROR_CODES_BASE + 20

\* The ERR_* properties of InAppBilling.prototype, by name
Prototype ==
    [ERR_SETUP |-> ERR_SETUP, ERR_LOAD |-> ERR_LOAD, ERR_PURCHASE |-> ERR_PURCHASE,
     ERR_LOAD_RECEIPTS |-> ERR_LOAD_RECEIPTS, ERR_CLIENT_INVALID |-> ERR_CLIENT_INVALID,
     ERR_PAYMENT_CANCELLED |-> ERR_PAYMENT_CANCELLED,
     ERR_PAYMENT_INVALID |-> ERR_PAYMENT_INVALID,
     ERR_PAYMENT_NOT_ALLOWED |-> ERR_PAYMENT_NOT_ALLOWED, ERR_UNKNOWN |-> ERR_UNKNOWN,
     ERR_LOAD_INVENTORY |-> ERR_LOAD_INVENTORY, ERR_HELPER_DISPOSED |-> ERR_HELPER_DISPOSED,
     ERR_NOT_INITIALIZED |-> ERR_NOT_INITIALIZED,
     ERR_INVENTORY_NOT_LOADED |-> ERR_INVENTORY_NOT_LOADED,
     ERR_PURCHASE_FAILED |-> ERR_PURCHASE_FAILED,
     ERR_JSON_CONVERSION_FAILED |-> ERR_JSON_CONVERSION_FAILED,
     ERR_INVALID_PURCHASE_PAYLOAD |-> ERR_INVALID_PURCHASE_PAYLOAD,
     ERR_SUBSCRIPTION_NOT_SUPPORTED |-> ERR_SUBSCRIPTION_NOT_SUPPORTED,
     ERR_CONSUME_NOT_OWNED_ITEM |-> ERR_CONSUME_NOT_OWNED_ITEM,
     ERR_CONSUMPTION_FAILED |-> ERR_CONSUMPTION_FAILED]

\* ------------------------------------------------------------------ state
VARIABLES
    options,     \* this.options
    log,         \* this.log: "prototype" (console.log) or "noop" (replaced by init)
    ncalls,      \* operation calls made so far
    last,        \* the latest operation call: its inputs and everything it did
    calls,       \* per call: bridge calls issued, callback invocations so far
    delivered,   \* what the latest step of the native layer invoked, if it was one
    showLogOff   \* some init received options.showLog === false

vars == <<options, log, ncalls, last, calls, delivered, showLogOff>>

\* The callbacks the caller supplies to call k
SuccessCb(k) == [kind |-> "success", call |-> k]
FailCb(k) == [kind |-> "fail", call |-> k]

\* One run of an operation on the instance `this` (its options and log):
\* console lines, arguments the facade passed to fail and to success itself,
\* bridge calls issued, TypeError thrown, and the instance as the run left it
Run(this) == [logs |-> <<>>, failArgs |-> <<>>, successArgs |-> <<>>, execs |-> <<>>,
              threw |-> FALSE, options |-> this.options, log |-> this.log]

\* InAppBilling.prototype.log, or the no-op init installs
Log(lg, msg) == IF lg = "noop" THEN <<>> ELSE << <<"InAppBilling[js]: ">> \o msg >>

\* cordova.exec(success, fail, plugin, action, args)
Exec(success, fail, plugin, action, args) ==
    [success |-> success, fail |-> fail, plugin |-> plugin, action |-> action,
     args |-> args]


\* if (typeof productIds === "string") productIds = [productIds];
Normalize_none(productIds) == productIds
Normalize(productIds) ==
    IF TypeOf(productIds) = "string" THEN Arr(<<productIds>>) ELSE productIds

\* Reading productIds.length throws a TypeError on undefined and null
LengthThrows(productIds) == productIds.t \in {"undefined", "null"}

\* productIds.length > 0 (the length of a number is undefined: false)
LengthGt0_ge0(productIds) ==
    \/ productIds.t = "array"
    \/ productIds.t = "string"
LengthGt0(productIds) ==
    \/ productIds.t = "array" /\ Len(productIds.a) > 0
    \/ productIds.t = "string" /\ productIds.s # ""

\* !productIds.length (the length of a number is undefined: true)
LengthFalsy_never(productIds) == FALSE
LengthFalsy(productIds) ==
    CASE productIds.t = "array" -> Len(productIds.a) = 0
      [] productIds.t = "string" -> productIds.s = ""
      [] OTHER -> TRUE

\* typeof productIds[0] !== 'string' (an index past the end reads undefined)
FirstNotString_any(productIds) ==
    CASE productIds.t = "array" ->
             \/ Len(productIds.a) = 0
             \/ \E i \in 1..Len(productIds.a) : TypeOf(productIds.a[i]) # "string"
      [] productIds.t = "string" -> productIds.s = ""
      [] OTHER -> TRUE
FirstNotString(productIds) ==
    CASE productIds.t = "array" ->
             \/ Len(productIds.a) = 0
             \/ TypeOf(productIds.a[1]) # "string"
      [] productIds.t = "string" -> productIds.s = ""
      [] OTHER -> TRUE

\* 'invalid productIds: ' + JSON.stringify(productIds)
InvalidMsg_bare(productIds) == <<"invalid productIds: ">>
InvalidMsg(productIds) == <<"invalid productIds: ">> \o JSONstringify(productIds)

\* A string passed to a callback, by the pieces of its text
MsgString(msg) == [t |-> "string", text |-> msg]

\* options.showLog || true
init_showLog(opts) == JsOr(opts.showLog, "true")

\* InAppBilling.prototype.init
init_run(this, success, fail, options0, productIds0) ==
    LET opts == IF options0.t = "undefined"
                THEN [t |-> "object", showLog |-> "undefined"] ELSE options0
        newOptions == [showLog |-> init_showLog(opts)]
        lg == IF ~Truthy(newOptions.showLog) THEN "noop" ELSE this.log
        r == [Run(this) EXCEPT !.options = newOptions, !.log = lg,
                               !.logs = Log(lg, <<"setup ok">>)]
        productIds == Normalize(productIds0)
        noSkus == [r EXCEPT !.execs = <<Exec(success, fail, "InAppBillingPlugin", "init", <<>>)>>]
    IN  IF TypeOf(productIds0) # "undefined"
        THEN IF LengthThrows(productIds)
             THEN [r EXCEPT !.threw = TRUE]
             ELSE IF LengthGt0(productIds)
                  THEN IF FirstNotString(productIds)
                       THEN LET msg == InvalidMsg(productIds)
                            IN  [r EXCEPT !.logs = @ \o Log(lg, msg),
                                          !.failArgs = <<MsgString(msg)>>]
                       ELSE [r EXCEPT
                               !.logs = @ \o Log(lg, <<"load ">> \o JSONstringify(productIds)),
                               !.execs = <<Exec(success, fail, "InAppBillingPlugin", "init",
                                                <<productIds>>)>>]
                  ELSE noSkus
        ELSE noSkus

\* InAppBilling.prototype.getPurchases
getPurchases_nullArg(this, success, fail) ==
    [Run(this) EXCEPT
       !.logs = Log(this.log, <<"getPurchases called!">>),
       !.execs = <<Exec(success, fail, "InAppBillingPlugin", "getPurchases", <<Null>>)>>]
getPurchases_run(this, success, fail) ==
    [Run(this) EXCEPT
       !.logs = Log(this.log, <<"getPurchases called!">>),
       !.execs = <<Exec(success, fail, "InAppBillingPlugin", "getPurchases",
                        <<Str("null")>>)>>]

\* InAppBilling.prototype.buy
buy_resetsOptions(this, success, fail, productId) ==
    [Run(this) EXCEPT
       !.options = [showLog |-> "undefined"],
       !.logs = Log(this.log, <<"buy called!">>),
       !.execs = <<Exec(success, fail, "InAppBillingPlugin", "buy", <<productId>>)>>]
buy_run(this, success, fail, productId) ==
    [Run(this) EXCEPT
       !.logs = Log(this.log, <<"buy called!">>),
       !.execs = <<Exec(success, fail, "InAppBillingPlugin", "buy", <<productId>>)>>]

\* InAppBilling.prototype.subscribe
subscribe_run(this, success, fail, productId) ==
    [Run(this) EXCEPT
       !.logs = Log(this.log, <<"subscribe called!">>),
       !.execs = <<Exec(success, fail, "InAppBillingPlugin", "subscribe", <<productId>>)>>]

\* InAppBilling.prototype.consumePurchase
consumePurchase_run(this, success, fail, productId) ==
    [Run(this) EXCEPT
       !.logs = Log(this.log, <<"consumePurchase called!">>),
       !.execs = <<Exec(success, fail, "InAppBillingPlugin", "consumePurchase",
                        <<productId>>)>>]

\* InAppBilling.prototype.getAvailableProducts
getAvailableProducts_run(this, success, fail) ==
    [Run(this) EXCEPT
       !.logs = Log(this.log, <<"getAvailableProducts called!">>),
       !.execs = <<Exec(success, fail, "InAppBillingPlugin", "getAvailableProducts",
                        <<Str("null")>>)>>]

\* InAppBilling.prototype.getProductDetails
getProductDetails_noReturn(this, success, fail, productIds0) ==
    LET r == [Run(this) EXCEPT !.logs = Log(this.log, <<"getProductDetails called!">>)]
        productIds == Normalize(productIds0)
        failed == FirstNotString(productIds)
        msg == InvalidMsg(productIds)
    IN  IF LengthThrows(productIds)
        THEN [r EXCEPT !.threw = TRUE]
        ELSE IF LengthFalsy(productIds)
             THEN r
             ELSE [r EXCEPT
                     !.logs = @ \o (IF failed THEN Log(this.log, msg) ELSE <<>>)
                                \o Log(this.log, <<"load ">> \o JSONstringify(productIds)),
                     !.failArgs = IF failed THEN <<MsgString(msg)>> ELSE <<>>,
                     !.execs = <<Exec(success, fail, "InAppBillingPlugin",
                                      "getProductDetails", <<productIds>>)>>]
getProductDetails_run(this, success, fail, productIds0) ==
    LET r == [Run(this) EXCEPT !.logs = Log(this.log, <<"getProductDetails called!">>)]
        productIds == Normalize(productIds0)
    IN  IF LengthThrows(productIds)
        THEN [r EXCEPT !.threw = TRUE]
        ELSE IF LengthFalsy(productIds)
             THEN r
             ELSE IF FirstNotString(productIds)
                  THEN LET msg == InvalidMsg(productIds)
                       IN  [r EXCEPT !.logs = @ \o Log(this.log, msg),
                                     !.failArgs = <<MsgString(msg)>>]
                  ELSE [r EXCEPT
                          !.logs = @ \o Log(this.log, <<"load ">> \o JSONstringify(productIds)),
                          !.execs = <<Exec(success, fail, "InAppBillingPlugin",
                                           "getProductDetails", <<productIds>>)>>]

\* ------------------------------------------------------------ transitions
NoInput == Undefined
NoOptions == [t |-> "undefined", showLog |-> "undefined"]
NotDelivered == [callback |-> [kind |-> "none", call |-> 0], errorCode |-> 0]
NoCall == [bridged |-> 0, facadeFail |-> 0, facadeSuccess |-> 0,
           nativeSuccess |-> 0, nativeFail |-> 0]

\* var InAppBilling = function() { this.options = {}; }; log is the prototype's
Init ==
    /\ options = [showLog |-> "undefined"]
    /\ log = "prototype"
    /\ ncalls = 0
    /\ last = [id |-> 0, op |-> "none", arg |-> NoInput, optionsArg |-> NoOptions,
                before |-> [options |-> [showLog |-> "undefined"], log |-> "prototype"],
                run |-> Run([options |-> [showLog |-> "undefined"], log |-> "prototype"])]
    /\ calls = [k \in 1..MaxCalls |-> NoCall]
    /\ delivered = NotDelivered
    /\ showLogOff = FALSE

This == [options |-> options, log |-> log]

\* The caller's call number k of operation op returned (or threw) with run r
Return(k, op, arg, optionsArg, r) ==
    /\ ncalls' = k
    /\ options' = r.options
    /\ log' = r.log
    /\ last' = [id |-> k, op |-> op, arg |-> arg, optionsArg |-> optionsArg,
                 before |-> This, run |-> r]
    /\ calls' = [calls EXCEPT ![k] = [bridged |-> Len(r.execs),
                                      facadeFail |-> Len(r.failArgs),
                                      facadeSuccess |-> Len(r.successArgs),
                                      nativeSuccess |-> 0, nativeFail |-> 0]]
    /\ showLogOff' = (showLogOff \/ (op = "init" /\ optionsArg.showLog = "false"))
    /\ delivered' = NotDelivered

init ==
    /\ ncalls < MaxCalls
    /\ \E opts \in OptionsInputs, productIds \in ProductIdsInputs :
          LET k == ncalls + 1
          IN  Return(k, "init", productIds, opts,
                     init_run(This, SuccessCb(k), FailCb(k), opts, productIds))

getPurchases ==
    /\ ncalls < MaxCalls
    /\ LET k == ncalls + 1
       IN  Return(k, "getPurchases", NoInput, NoOptions,
                  getPurchases_run(This, SuccessCb(k), FailCb(k)))

buy ==
    /\ ncalls < MaxCalls
    /\ \E productId \in ProductIdInputs :
          LET k == ncalls + 1
          IN  Return(k, "buy", productId, NoOptions,
                     buy_run(This, SuccessCb(k), FailCb(k), productId))

subscribe ==
    /\ ncalls < MaxCalls
    /\ \E productId \in ProductIdInputs :
          LET k == ncalls + 1
          IN  Return(k, "subscribe", productId, NoOptions,
                     subscribe_run(This, SuccessCb(k), FailCb(k), productId))

consumePurchase ==
    /\ ncalls < MaxCalls
    /\ \E productId \in ProductIdInputs :
          LET k == ncalls + 1
          IN  Return(k, "consumePurchase", productId, NoOptions,
                     consumePurchase_run(This, SuccessCb(k), FailCb(k), productId))

getAvailableProducts ==
    /\ ncalls < MaxCalls
    /\ LET k == ncalls + 1
       IN  Return(k, "getAvailableProducts", NoInput, NoOptions,
                  getAvailableProducts_run(This, SuccessCb(k), FailCb(k)))

getProductDetails ==
    /\ ncalls < MaxCalls
    /\ \E productIds \in ProductIdsInputs :
          LET k == ncalls + 1
          IN  Return(k, "getProductDetails", productIds, NoOptions,
                     getProductDetails_run(This, SuccessCb(k), FailCb(k), productIds))

\* The native layer completes a bridge call of call k: it invokes the success
\* callback, or the failure callback with {errorCode, msg, nativeEvent}; one
\* completion per bridge call, in any order among the calls in flight
InFlight(k) == calls[k].nativeSuccess + calls[k].nativeFail < calls[k].bridged

ErrorCodes == {Prototype[name] : name \in DOMAIN Prototype}

NativeSuccess(k) ==
    /\ InFlight(k)
    /\ delivered' = [callback |-> SuccessCb(k), errorCode |-> 0]
    /\ calls' = [calls EXCEPT ![k].nativeSuccess = @ + 1]
    /\ UNCHANGED <<options, log, ncalls, last, showLogOff>>

NativeFail(k, codes) ==
    /\ InFlight(k)
    /\ \E code \in codes : delivered' = [callback |-> FailCb(k), errorCode |-> code]
    /\ calls' = [calls EXCEPT ![k].nativeFail = @ + 1]
    /\ UNCHANGED <<options, log, ncalls, last, showLogOff>>

\* The facade never reads the error object, so the operations are explored
\* with one error code; ErrSpec below explores every code of the table
NativeComplete == \E k \in 1..MaxCalls : NativeSuccess(k) \/ NativeFail(k, {ERR_UNKNOWN})

Next ==
    \/ init
    \/ getPurchases
    \/ buy
    \/ subscribe
    \/ consumePurchase
    \/ getAvailableProducts
    \/ getProductDetails
    \/ NativeComplete

Spec == Init /\ [][Next]_vars

\* The native layer completes every bridge call it received
FairSpec ==
    Spec /\ \A k \in 1..MaxCalls : WF_vars(NativeSuccess(k) \/ NativeFail(k, {ERR_UNKNOWN}))

\* Purchases made and consumed, with the native layer reporting any code of
\* the error code table
NativeReport == \E k \in 1..MaxCalls : NativeSuccess(k) \/ NativeFail(k, ErrorCodes)

ErrNext ==
    \/ buy
    \/ consumePurchase
    \/ getPurchases
    \/ NativeReport

ErrSpec == Init /\ [][ErrNext]_vars

\* ------------------------------------------------------------ properties
\* sub occurs in msg as a run of consecutive pieces
Contains(msg, sub) ==
    \E i \in 1..(Len(msg) - Len(sub) + 1) : SubSeq(msg, i, i + Len(sub) - 1) = sub

\* productIds as a sequence: a bare string stands for the one-element sequence
AsSequence(arg) == IF arg.t = "string" THEN <<arg>> ELSE arg.a

\* The latest call passed productIds whose first element is not a string
Malformed ==
    /\ last.op \in {"init", "getProductDetails"}
    /\ last.arg.t \in {"string", "array"}
    /\ Len(AsSequence(last.arg)) > 0
    /\ AsSequence(last.arg)[1].t # "string"

\* The latest call passed productIds that is a non-empty array starting with a string
WellFormedArray ==
    /\ last.op \in {"init", "getProductDetails"}
    /\ last.arg.t = "array"
    /\ Len(last.arg.a) > 0
    /\ last.arg.a[1].t = "string"

\* The one bridge call the latest call is to issue, with argument list args
TheBridgeCall(args) ==
    <<[success |-> SuccessCb(last.id), fail |-> FailCb(last.id),
       plugin |-> "InAppBillingPlugin", action |-> last.op, args |-> args]>>

\* The facade itself invoked neither callback in the latest call
NoFacadeCallback == last.run.failArgs = <<>> /\ last.run.successArgs = <<>>

C2_ShowLogFalseSilences == showLogOff => last.run.logs = <<>>

\* C3 as stated: getProductDetails with an empty sequence or an empty string
\* invokes neither callback and issues no bridge call.
C3_EmptyStringSilent ==
    (last.op = "getProductDetails" /\ last.arg \in {Arr(<<>>), Str("")}) =>
        /\ NoFacadeCallback
        /\ last.run.execs = <<>>

\* C3 amended: getProductDetails with an empty sequence invokes neither
\* callback and issues no bridge call; with an empty string it invokes neither
\* callback itself and issues one bridge call carrying [[""]].
C3_EmptySequenceSilent ==
    /\ (last.op = "getProductDetails" /\ last.arg = Arr(<<>>)) =>
          /\ NoFacadeCallback
          /\ last.run.execs = <<>>
          /\ calls[last.id].bridged = 0
          /\ ~last.run.threw
    /\ (last.op = "getProductDetails" /\ last.arg = Str("")) =>
          /\ NoFacadeCallback
          /\ last.run.execs = TheBridgeCall(<<Arr(<<Str("")>>)>>)

C3_Witness ==
    /\ last.op = "getProductDetails"
    /\ last.arg = Arr(<<>>)
    /\ last.run.logs = << <<"InAppBilling[js]: ", "getProductDetails called!">> >>

\* C4: init or getProductDetails called with a string s does what the same
\* call with [s] does: one bridge call with the operation's action name and
\* the argument list [[s]].
C4_StringAsOneElementSequence ==
    (last.op \in {"init", "getProductDetails"} /\ last.arg.t = "string") =>
        /\ last.run.execs = TheBridgeCall(<<Arr(<<last.arg>>)>>)
        /\ NoFacadeCallback
        /\ last.run =
              IF last.op = "init"
              THEN init_run(last.before, SuccessCb(last.id), FailCb(last.id),
                            last.optionsArg, Arr(<<last.arg>>))
              ELSE getProductDetails_run(last.before, SuccessCb(last.id), FailCb(last.id),
                                         Arr(<<last.arg>>))

C4_Witness ==
    /\ last.op = "init"
    /\ last.arg = Str("sku1")
    /\ last.optionsArg.showLog = "false"
    /\ Len(last.run.execs) = 1
    /\ last.run.execs[1].args = <<Arr(<<Str("sku1")>>)>>

\* The offsets of the error code table
Offsets ==
    [ERR_SETUP |-> 1, ERR_LOAD |-> 2, ERR_PURCHASE |-> 3, ERR_LOAD_RECEIPTS |-> 4,
     ERR_CLIENT_INVALID |-> 5, ERR_PAYMENT_CANCELLED |-> 6, ERR_PAYMENT_INVALID |-> 7,
     ERR_PAYMENT_NOT_ALLOWED |-> 8, ERR_UNKNOWN |-> 10, ERR_LOAD_INVENTORY |-> 11,
     ERR_HELPER_DISPOSED |-> 12, ERR_NOT_INITIALIZED |-> 13,
     ERR_INVENTORY_NOT_LOADED |-> 14, ERR_PURCHASE_FAILED |-> 15,
     ERR_JSON_CONVERSION_FAILED |-> 16, ERR_INVALID_PURCHASE_PAYLOAD |-> 17,
     ERR_SUBSCRIPTION_NOT_SUPPORTED |-> 18, ERR_CONSUME_NOT_OWNED_ITEM |-> 19,
     ERR_CONSUMPTION_FAILED |-> 20]

\* C5: every ERR_* constant is 4983497 plus its offset in the table, no two
\* constants are equal, none is 4983497 + 9, and so no failure the native
\* layer reports with a code of the table carries 4983497 + 9.
C5_ErrorCodeTable ==
    /\ DOMAIN Prototype = DOMAIN Offsets
    /\ \A name \in DOMAIN Prototype : Prototype[name] = 4983497 + Offsets[name]
    /\ \A m, n \in DOMAIN Prototype : Prototype[m] = Prototype[n] => m = n
    /\ \A name \in DOMAIN Prototype : Prototype[name] # 4983497 + 9
    /\ delivered.callback.kind = "fail" =>
          /\ delivered.errorCode # 4983497 + 9
          /\ delivered.errorCode - 4983497 \in 1..20

C5_Witness ==
    /\ delivered.callback.kind = "fail"
    /\ delivered.errorCode = 4983507
    /\ delivered.errorCode = Prototype.ERR_UNKNOWN

\* C6: buy, subscribe, consumePurchase, getPurchases and getAvailableProducts
\* issue, in any state of the instance, exactly one bridge call with the
\* caller's callbacks, plugin "InAppBillingPlugin", the operation's name as
\* action, and [productId] or the placeholder ["null"] as argument list.
C6_PlainForwarding ==
    /\ last.op \in {"buy", "subscribe", "consumePurchase"} =>
          /\ last.run.execs = TheBridgeCall(<<last.arg>>)
          /\ calls[last.id].bridged = 1
          /\ NoFacadeCallback
    /\ last.op \in {"getPurchases", "getAvailableProducts"} =>
          /\ last.run.execs = TheBridgeCall(<<Str("null")>>)
          /\ calls[last.id].bridged = 1
          /\ NoFacadeCallback

C6_Witness ==
    /\ last.op = "getPurchases"
    /\ last.id = 1
    /\ last.before.options = [showLog |-> "undefined"]
    /\ Len(last.run.execs) = 1

\* C7: init without productIds or with an empty sequence issues exactly one
\* bridge call, action "init", empty argument list, and invokes no callback;
\* init with a non-empty sequence starting with a string issues exactly one
\* bridge call, action "init", argument list [productIds].
C7_InitForwarding ==
    /\ (last.op = "init" /\ last.arg \in {Undefined, Arr(<<>>)}) =>
          /\ last.run.execs = TheBridgeCall(<<>>)
          /\ calls[last.id].bridged = 1
          /\ NoFacadeCallback
    /\ (last.op = "init" /\ WellFormedArray) =>
          /\ last.run.execs = TheBridgeCall(<<last.arg>>)
          /\ calls[last.id].bridged = 1

C7_Witness ==
    /\ last.op = "init"
    /\ last.arg = Arr(<<>>)
    /\ Len(last.run.execs) = 1
    /\ last.run.execs[1].args = <<>>

\* Callback invocations of call k by the native layer so far
Completions(k) == calls[k].nativeSuccess + calls[k].nativeFail

\* C8: a call that issues a bridge call gets exactly one of its two callbacks
\* invoked exactly once: never by the facade, never more than once by the
\* native layer, and from some point on once by the native layer; a call
\* whose failure callback the facade invoked issued no bridge call.
C8_ExactlyOneCallback ==
    /\ [](\A k \in 1..MaxCalls :
             /\ calls[k].bridged >= 1 =>
                   /\ calls[k].bridged = 1
                   /\ calls[k].facadeFail = 0
                   /\ calls[k].facadeSuccess = 0
                   /\ Completions(k) <= 1
             /\ calls[k].facadeFail >= 1 => calls[k].bridged = 0)
    /\ <>[](\A k \in 1..MaxCalls : calls[k].bridged >= 1 => Completions(k) = 1)

\* The second call completed while the first is still in flight
C8_Witness ==
    /\ calls[1].bridged = 1
    /\ Completions(1) = 0
    /\ calls[2].bridged = 1
    /\ Completions(2) = 1
    /\ delivered.callback = FailCb(2)

\* C9: options and the log toggle are written only by init: every call of
\* another operation leaves both unchanged.
C9_ConfigurationWrittenOnlyByInit ==
    [][/\ (ncalls' # ncalls /\ last'.op # "init") => (options' = options /\ log' = log)
       /\ (options' # options \/ log' # log) => (ncalls' # ncalls /\ last'.op = "init")]_vars

\* A getProductDetails call that failed validation, made after an init
C9_Witness ==
    /\ last.op = "getProductDetails"
    /\ Len(last.run.failArgs) = 1
    /\ last.before.options = [showLog |-> "true"]
    /\ options = [showLog |-> "true"]
    /\ log = last.before.log

\* C10: init and getProductDetails check only the first element: a non-empty
\* sequence starting with a string is forwarded as it is, also when later
\* elements are not strings, and the facade does not invoke fail.
C10_OnlyFirstElementChecked ==
    WellFormedArray =>
        /\ last.run.execs = TheBridgeCall(<<last.arg>>)
        /\ last.run.failArgs = <<>>

C10_Witness ==
    /\ last.op = "getProductDetails"
    /\ last.arg = Arr(<<Str("sku1"), Num(42)>>)
    /\ Len(last.run.execs) = 1
    /\ last.run.execs[1].args[1].a = <<Str("sku1"), Num(42)>>

====
